---------------------------- MODULE Spec2Model ----------------------------
(***************************************************************************)
(* A model of src/ejs.c: the recursive-descent syntax checker ejs_exec and *)
(* the scanner underneath it.                                              *)
(*                                                                         *)
(* A source text is a sequence of one-character strings; the terminating   *)
(* NUL is not stored, it is what CharAt gives at offset Len(source).       *)
(* cursor, tok are 0-based offsets into the source (the C pointers minus   *)
(* source_code).  The C call stack is the variable stack: one frame per    *)
(* active call, the innermost first, holding the label to return to and    *)
(* (for the progress property C10 only; C keeps no such thing) the cursor  *)
(* at the time of the call; pc is the function (or the place in a          *)
(* function) about to run.  Every function of the parser that   *)
(* calls another parser function is cut at those calls; the scanner        *)
(* functions (skip_whitespaces_and_comments, match, test_and_skip and the  *)
(* character loops of parse_num / parse_identifier) are operators that run *)
(* whole inside the action that calls them.                                *)
(***************************************************************************)
EXTENDS Integers, Sequences, FiniteSets, TLC

VARIABLES
  source_code,  \* struct ejs: the source text of the current ejs_exec call
  cursor,       \* struct ejs: offset of the current parsing position
  line_no,      \* struct ejs: line counter
  tok,          \* struct ejs: offset of the last identifier / number
  tok_len,      \* struct ejs: its length
  error_msg,    \* struct ejs: the diagnostic buffer, as a sequence of strings
  pc,           \* where control is: "idle", a parser label, or "done"
  stack,        \* frames of the active parser calls
  retval,       \* what the last finished ejs_exec call returned
  calls,        \* number of ejs_exec calls made on the instance
  entry_line,   \* line_no as the current ejs_exec call found it
  log           \* one record per finished ejs_exec call

vars == <<source_code, cursor, line_no, tok, tok_len, error_msg, pc, stack,
          retval, calls, entry_line, log>>

----------------------------------------------------------------------------
(* Bounds of the input space.                                              *)

MaxLen == 5

MaxDepth == 3

MaxCalls == 2

----------------------------------------------------------------------------
(* Characters and their classes (char_class and the is_* predicates).      *)

NUL == "NUL"

Digits == {"0", "1", "2", "3", "4", "5", "6", "7", "8", "9"}

HexLetters == {"A", "B", "C", "D", "E", "F", "a", "b", "c", "d", "e", "f"}

OtherLetters ==
  {"G", "H", "I", "J", "K", "L", "M", "N", "O", "P", "Q", "R", "S", "T",
   "U", "V", "W", "X", "Y", "Z",
   "g", "h", "i", "j", "k", "l", "m", "n", "o", "p", "q", "r", "s", "t",
   "u", "v", "w", "x", "y", "z"}

(* Class 1 of the table.  Byte 96 (the backquote) is of class 1 too but    *)
(* cannot be written in a string here; no predicate below tells class 1   *)
(* from class 0.                                                           *)
Delimiters ==
  {"\t", "\n", "\f", " ", "!", "\"", "#", "$", "%", "&", "'", "(", ")",
   "*", "+", ",", "-", ".", "/", ":", ";", "<", "=", ">", "?", "@", "[",
   "\\", "]", "^", "_", "{", "|", "}", "~"}

char_class(c) ==
  IF c \in Delimiters THEN 1
  ELSE IF c \in Digits THEN 2
  ELSE IF c \in HexLetters THEN 3
  ELSE IF c \in OtherLetters THEN 4
  ELSE 0

is_alpha(c) == char_class(c) > 2

is_alnum(c) == char_class(c) > 1

(* A slip in is_digit: the letters' classes pass as digits.                *)
is_digit_or_above(c) == char_class(c) >= 2

is_digit(c) == char_class(c) = 2

is_space(c) == c = " " \/ c = "\t" \/ c = "\r" \/ c = "\n"

(* The byte at offset i of the NUL-terminated text src.  Offsets past the  *)
(* terminator are outside the buffer; the parser reads one only in         *)
(* memcmp (where an earlier byte already decides the comparison) and in    *)
(* the diagnostic snippet (see Snippets).                                  *)
CharAt(src, i) == IF i < Len(src) THEN src[i + 1] ELSE NUL

----------------------------------------------------------------------------
(* skip_whitespaces_and_comments                                           *)

RECURSIVE SkipSpaces(_, _, _)
SkipSpaces(src, s, line) ==
  IF CharAt(src, s) # NUL /\ is_space(CharAt(src, s))
  THEN SkipSpaces(src, s + 1,
                  IF CharAt(src, s) = "\n" THEN line + 1 ELSE line)
  ELSE [s |-> s, line_no |-> line]

RECURSIVE SkipLine(_, _)
SkipLine(src, s) ==
  IF CharAt(src, s) # NUL /\ CharAt(src, s) # "\n"
  THEN SkipLine(src, s + 1)
  ELSE s

IsCommentStart(c0, c1) == c0 = "/" /\ c1 = "/"

skip_whitespaces_and_comments(src, cur, line) ==
  IF is_space(CharAt(src, cur))
  THEN LET w == SkipSpaces(src, cur, line)
       IN  IF IsCommentStart(CharAt(src, w.s), CharAt(src, w.s + 1))
           THEN [cursor |-> SkipLine(src, w.s + 2), line_no |-> w.line_no]
           ELSE [cursor |-> w.s, line_no |-> w.line_no]
  ELSE [cursor |-> cur, line_no |-> line]

----------------------------------------------------------------------------
(* The source texts given to ejs_exec.                                     *)

Strings(alphabet, n) == UNION {[1..k -> alphabet] : k \in 0..n}

(* Section 8's scenarios 1-6, the call of scenario 4 on the right of "=",  *)
(* a statement through every operator loop, and a statement followed by a  *)
(* comment that holds a parenthesis.                                       *)
S_var_sum ==
  <<"v","a","r"," ","x"," ","="," ","1","0"," ","+"," ","2","0",";">>

S_assign_mul ==
  <<"x"," ","="," ","5"," ","*"," ","(","2"," ","+"," ","3",")",";">>

S_var_empty ==
  <<"v","a","r"," ","x"," ","="," ",";">>

S_bare_call ==
  <<"f","o","o","(","1",","," ","2",")",";">>

S_comment_only ==
  <<"/","/"," ","j","u","s","t"," ","a"," ","c","o","m","m","e","n","t","\n">>

S_var_two ==
  <<"v","a","r"," ","a"," ","="," ","1",","," ","b"," ","="," ","a"," ","+"," ","2",";">>

S_call_rhs ==
  <<"x"," ","="," ","f","o","o","(","1",","," ","2",")",";">>

S_call_stmt_sub ==
  <<"x"," ","="," ","1"," ","-"," ","f","(","2",",",")"," ","/"," ","3",";">>

S_paren_in_comment ==
  <<"x"," ","="," ","(","1",")",";"," ","/","/"," ",")">>

Scenarios ==
  {S_paren_in_comment,
   S_var_sum,
   S_assign_mul,
   S_var_empty,
   S_bare_call,
   S_comment_only,
   S_var_two,
   S_call_rhs,
   S_call_stmt_sub}

(* Balanced nestings: an atom wrapped d times, each time in "(" ")" or in  *)
(* the call "f(" ")", as the right-hand side of an assignment.             *)
Atoms == {<<"1">>, <<"x">>}

Wrap(e) == <<"(">> \o e \o <<")">>

CallWrap(e) == <<"f", "(">> \o e \o <<")">>

RECURSIVE Nestings(_)
Nestings(d) ==
  IF d = 0 THEN Atoms
  ELSE LET inner == Nestings(d - 1)
       IN  {Wrap(e) : e \in inner} \cup {CallWrap(e) : e \in inner}

Stmt(e) == <<"x", "=">> \o e \o <<";">>

Balanced == UNION {{Stmt(e) : e \in Nestings(d)} : d \in 0..MaxDepth}

DropAt(t, i) == SubSeq(t, 1, i - 1) \o SubSeq(t, i + 1, Len(t))

(* The same statements with one parenthesis removed.                       *)
Unbalanced ==
  UNION {{DropAt(t, i) : i \in {j \in 1..Len(t) : t[j] \in {"(", ")"}}} :
         t \in Balanced}

GrammarAlphabet == {"x", "_", "1", "=", ";", "(", ")", "+"}

BlankAlphabet == {"x", "=", "1", ";", " ", "\n", "/"}

Inputs ==
  Strings(GrammarAlphabet, MaxLen) \cup Strings(BlankAlphabet, MaxLen)
    \cup Scenarios \cup Balanced \cup Unbalanced

----------------------------------------------------------------------------
(* ejs_create: calloc zeroes the instance.                                 *)

Init ==
  /\ source_code = <<>>
  /\ cursor = 0
  /\ line_no = 0
  /\ tok = 0
  /\ tok_len = 0
  /\ error_msg = <<>>
  /\ pc = "idle"
  /\ stack = <<>>
  /\ retval = 0
  /\ calls = 0
  /\ entry_line = 0
  /\ log = <<>>

----------------------------------------------------------------------------
(* die and EXPECT                                                          *)

SnippetLen == 10

Min(a, b) == IF a < b THEN a ELSE b

(* A byte of the memory that follows the source buffer.                    *)
Garbage == "?"

(* What "%.*s" with precision 10 prints from offset cur: up to 10 bytes,   *)
(* stopping at a NUL.  From an offset past the terminator the bytes are    *)
(* not the program's: the read is undefined, and prints nothing or bytes   *)
(* of whatever follows the buffer.                                         *)
Snippets(src, cur) ==
  IF cur <= Len(src)
  THEN {SubSeq(src, cur + 1, Min(cur + SnippetLen, Len(src)))}
  ELSE {<<>>, <<Garbage>>}

(* vsnprintf(error_msg, 100, "[%.*s]: %s", 10, cursor, cond).  The longest *)
(* condition text has 45 characters, so the 99 of the buffer are never     *)
(* exceeded and nothing is cut.                                            *)
Format(snip, cond) == <<"[">> \o snip \o <<"]", ":", " ", cond>>

(* What a finished call leaves in the log: its source and result, line_no  *)
(* at its entry and at its return, and the number of parser calls that     *)
(* were active when it returned.                                           *)
LogEntry(ret, line) ==
  [src |-> source_code, ret |-> ret, first |-> entry_line, last |-> line,
   depth |-> Len(stack)]

(* die: format the message, longjmp to ejs_exec's setjmp, which returns 0. *)
(* The caller has set cursor' and line_no'.                                *)
die(cond) ==
  /\ \E snip \in Snippets(source_code, cursor') :
       error_msg' = Format(snip, cond)
  /\ pc' = "done"
  /\ stack' = <<>>
  /\ retval' = 0
  /\ log' = Append(log, LogEntry(0, line_no'))

EXPECT_failed(cond) ==
  /\ cursor' = cursor
  /\ line_no' = line_no
  /\ die(cond)

----------------------------------------------------------------------------
(* The scanner functions, as steps of the action that calls them.          *)

Cur == CharAt(source_code, cursor)

SkipTo(cur) ==
  LET r == skip_whitespaces_and_comments(source_code, cur, line_no)
  IN  cursor' = r.cursor /\ line_no' = r.line_no

Goto(to_pc, to_stack) ==
  /\ pc' = to_pc
  /\ stack' = to_stack
  /\ UNCHANGED <<error_msg, retval, log>>

Push(ret_pc) == <<[ret |-> ret_pc, mark |-> cursor']>> \o stack

Call(callee, ret_pc) == Goto(callee, Push(ret_pc))

Return == Goto(Head(stack).ret, Tail(stack))

Stay == UNCHANGED <<cursor, line_no>>

(* A slip in match: the expected byte is taken when it is there, and its  *)
(* absence is let through.                                                 *)
match_if_present(ch, to_pc, to_stack) ==
  /\ IF Cur = ch THEN SkipTo(cursor + 1) ELSE Stay
  /\ Goto(to_pc, to_stack)

(* match(ejs, ch), then continue at to_pc.  The cursor moves on before the *)
(* comparison decides, so a failed match leaves it one past the byte.      *)
match(ch, to_pc, to_stack) ==
  IF Cur = ch
  THEN SkipTo(cursor + 1) /\ Goto(to_pc, to_stack)
  ELSE /\ cursor' = cursor + 1
       /\ line_no' = line_no
       /\ die("*ejs->cursor++ == ch")

(* memcmp(ejs->cursor, kw, kwlen) == 0 *)
KeywordAt(src, cur, kw) ==
  \A i \in 1..Len(kw) : CharAt(src, cur + i - 1) = kw[i]

RECURSIVE IdentEnd(_, _)
IdentEnd(src, s) ==
  IF is_alnum(CharAt(src, s)) \/ CharAt(src, s) = "_"
  THEN IdentEnd(src, s + 1)
  ELSE s

RECURSIVE NumEnd(_, _)
NumEnd(src, s) == IF is_digit(CharAt(src, s)) THEN NumEnd(src, s + 1) ELSE s

----------------------------------------------------------------------------
(* The parser.                                                             *)

Frame == UNCHANGED <<source_code, calls, entry_line>>

KeepTok == UNCHANGED <<tok, tok_len>>

(* A slip in parse_num: the EXPECT is missing.                             *)
parse_num_unchecked ==
  /\ pc = "parse_num"
  /\ LET e == NumEnd(source_code, cursor)
     IN  /\ tok' = cursor
         /\ tok_len' = e - cursor
         /\ SkipTo(e)
         /\ Return
  /\ Frame

(* The value parse_num accumulates (result = result * 10 + digit) is       *)
(* dropped by its only caller and is not kept here.                        *)
parse_num ==
  /\ pc = "parse_num"
  /\ IF is_digit(Cur)
     THEN LET e == NumEnd(source_code, cursor)
          IN  /\ tok' = cursor
              /\ tok_len' = e - cursor
              /\ SkipTo(e)
              /\ Return
     ELSE EXPECT_failed("is_digit(ejs->cursor)") /\ KeepTok
  /\ Frame

parse_identifier ==
  /\ pc = "parse_identifier"
  /\ IF is_alpha(Cur) \/ Cur = "_"
     THEN LET e == IdentEnd(source_code, cursor + 1)
          IN  /\ tok' = cursor
              /\ tok_len' = e - cursor
              /\ SkipTo(e)
              /\ Return
     ELSE /\ EXPECT_failed("is_alpha(ejs->cursor) || *ejs->cursor == '_'")
          /\ KeepTok
  /\ Frame

parse_function_call ==
  /\ pc = "parse_function_call"
  /\ match("(", "call_loop", stack)
  /\ KeepTok /\ Frame

\* while (cursor[0] != ')') { parse_expression; ... } match(ejs, ')')
call_loop ==
  /\ pc = "call_loop"
  /\ IF Cur # ")"
     THEN Stay /\ Call("parse_expression", "call_comma")
     ELSE match(")", Head(stack).ret, Tail(stack))
  /\ KeepTok /\ Frame

\* if (cursor[0] == ',') match(ejs, ',')
call_comma ==
  /\ pc = "call_comma"
  /\ IF Cur = ","
     THEN match(",", "call_loop", stack)
     ELSE Goto("call_loop", stack) /\ Stay
  /\ KeepTok /\ Frame

FactorKind(c) ==
  IF c = "(" THEN "paren" ELSE IF is_alpha(c) THEN "identifier" ELSE "num"

parse_factor ==
  /\ pc = "parse_factor"
  /\ LET kind == FactorKind(Cur)
     IN  IF kind = "paren"
         THEN match("(", "parse_expression", Push("factor_close"))
         ELSE IF kind = "identifier"
         THEN Stay /\ Call("parse_identifier", "factor_call")
         ELSE Goto("parse_num", stack) /\ Stay
  /\ KeepTok /\ Frame

factor_close ==
  /\ pc = "factor_close"
  /\ match(")", Head(stack).ret, Tail(stack))
  /\ KeepTok /\ Frame

\* if (cursor[0] == '(') parse_function_call(ejs)
factor_call ==
  /\ pc = "factor_call"
  /\ IF Cur = "(" THEN Goto("parse_function_call", stack) ELSE Return
  /\ Stay /\ KeepTok /\ Frame

parse_term ==
  /\ pc = "parse_term"
  /\ Stay
  /\ Call("parse_factor", "term_loop")
  /\ KeepTok /\ Frame

term_loop ==
  /\ pc = "term_loop"
  /\ IF Cur = "*" \/ Cur = "/"
     THEN match(Cur, "parse_factor", Push("term_loop"))
     ELSE Return /\ Stay
  /\ KeepTok /\ Frame

parse_expression ==
  /\ pc = "parse_expression"
  /\ Stay
  /\ Call("parse_term", "expr_loop")
  /\ KeepTok /\ Frame

expr_loop ==
  /\ pc = "expr_loop"
  /\ IF Cur = "-" \/ Cur = "+"
     THEN match(Cur, "parse_term", Push("expr_loop"))
     ELSE Return /\ Stay
  /\ KeepTok /\ Frame

parse_declaration ==
  /\ pc = "parse_declaration"
  /\ Stay
  /\ Call("parse_identifier", "decl_eq")
  /\ KeepTok /\ Frame

decl_eq ==
  /\ pc = "decl_eq"
  /\ match("=", "parse_expression", Push("decl_more"))
  /\ KeepTok /\ Frame

(* while (test_and_skip(ejs, ",", 1)) *)
decl_more ==
  /\ pc = "decl_more"
  /\ IF KeywordAt(source_code, cursor, <<",">>)
     THEN SkipTo(cursor + 1) /\ Goto("parse_declaration", stack)
     ELSE Return /\ Stay
  /\ KeepTok /\ Frame

parse_assignment ==
  /\ pc = "parse_assignment"
  /\ Stay
  /\ Call("parse_identifier", "asg_eq")
  /\ KeepTok /\ Frame

asg_eq ==
  /\ pc = "asg_eq"
  /\ match("=", "parse_expression", stack)
  /\ KeepTok /\ Frame

(* A slip in parse_statement: no assignment branch, a statement that is    *)
(* no declaration is an expression.                                        *)
StatementKind_expression(is_var, c) ==
  IF is_var THEN "parse_declaration" ELSE "parse_expression"

StatementKind(is_var, c) ==
  IF is_var THEN "parse_declaration"
  ELSE IF is_alpha(c) THEN "parse_assignment"
  ELSE "parse_expression"

parse_statement ==
  /\ pc = "parse_statement"
  /\ LET is_var == KeywordAt(source_code, cursor, <<"v", "a", "r">>)
     IN  /\ IF is_var THEN SkipTo(cursor + 3) ELSE Stay
         /\ Call(StatementKind(is_var, CharAt(source_code, cursor')),
                 "stmt_semi")
  /\ KeepTok /\ Frame

stmt_semi ==
  /\ pc = "stmt_semi"
  /\ match(";", Head(stack).ret, Tail(stack))
  /\ KeepTok /\ Frame

\* while (cursor[0] != NUL) parse_statement(ejs); return 1;
exec_loop ==
  /\ pc = "exec_loop"
  /\ Stay
  /\ IF Cur # NUL
     THEN Call("parse_statement", "exec_loop")
     ELSE /\ pc' = "done"
          /\ stack' = <<>>
          /\ retval' = 1
          /\ log' = Append(log, LogEntry(1, line_no))
          /\ UNCHANGED error_msg
  /\ KeepTok /\ Frame

(* ejs_exec up to its setjmp: neither line_no nor error_msg is reset.      *)
ejs_exec(src) ==
  /\ pc \in {"idle", "done"}
  /\ source_code' = src
  /\ LET r == skip_whitespaces_and_comments(src, 0, line_no)
     IN  cursor' = r.cursor /\ line_no' = r.line_no
  /\ entry_line' = line_no
  /\ calls' = calls + 1
  /\ pc' = "exec_loop"
  /\ stack' = <<>>
  /\ UNCHANGED <<tok, tok_len, error_msg, retval, log>>

Step ==
  \/ exec_loop
  \/ parse_statement
  \/ stmt_semi
  \/ parse_declaration
  \/ decl_eq
  \/ decl_more
  \/ parse_assignment
  \/ asg_eq
  \/ parse_expression
  \/ expr_loop
  \/ parse_term
  \/ term_loop
  \/ parse_factor
  \/ factor_close
  \/ factor_call
  \/ parse_function_call
  \/ call_loop
  \/ call_comma
  \/ parse_identifier
  \/ parse_num

(* One ejs_exec call on a fresh instance.                                  *)
Exec == calls = 0 /\ \E src \in Inputs : ejs_exec(src)

Next == Exec \/ Step

Spec == Init /\ [][Next]_vars

----------------------------------------------------------------------------
(* The grammar of section 4.4, as recognizers of a whole text, one per     *)
(* nonterminal.  They are the yardstick of C1 and C2: nothing of the       *)
(* parser above is used in them.                                           *)

Letters == HexLetters \cup OtherLetters

Part(t, a, b) == SubSeq(t, a, b)

\* number = digit , { digit }
IsNumber(t) == Len(t) >= 1 /\ \A i \in 1..Len(t) : t[i] \in Digits

\* identifier = (letter | "_") , { letter | digit | "_" }
IsIdentifier(t) ==
  /\ Len(t) >= 1
  /\ t[1] \in Letters \cup {"_"}
  /\ \A i \in 2..Len(t) : t[i] \in Letters \cup Digits \cup {"_"}

RECURSIVE IsExpression(_), IsTerm(_), IsFactor(_), IsArguments(_)

\* { expression , [","] }
IsArguments(t) ==
  \/ t = <<>>
  \/ \E j \in 1..Len(t) :
       /\ IsExpression(Part(t, 1, j))
       /\ \/ IsArguments(Part(t, j + 1, Len(t)))
          \/ /\ j < Len(t)
             /\ t[j + 1] = ","
             /\ IsArguments(Part(t, j + 2, Len(t)))

\* factor = number | identifier , [ "(" , arguments , ")" ]
\*        | "(" , expression , ")"
IsFactor(t) ==
  \/ IsNumber(t)
  \/ IsIdentifier(t)
  \/ /\ Len(t) >= 3
     /\ t[1] = "("
     /\ t[Len(t)] = ")"
     /\ IsExpression(Part(t, 2, Len(t) - 1))
  \/ /\ Len(t) >= 3
     /\ t[Len(t)] = ")"
     /\ \E i \in 2..(Len(t) - 1) :
          /\ t[i] = "("
          /\ IsIdentifier(Part(t, 1, i - 1))
          /\ IsArguments(Part(t, i + 1, Len(t) - 1))

\* term = factor , { ("*" | "/") , factor }
IsTerm(t) ==
  \/ IsFactor(t)
  \/ \E i \in 2..(Len(t) - 1) :
       /\ t[i] \in {"*", "/"}
       /\ IsFactor(Part(t, i + 1, Len(t)))
       /\ IsTerm(Part(t, 1, i - 1))

\* expression = term , { ("+" | "-") , term }
IsExpression(t) ==
  \/ IsTerm(t)
  \/ \E i \in 2..(Len(t) - 1) :
       /\ t[i] \in {"+", "-"}
       /\ IsTerm(Part(t, i + 1, Len(t)))
       /\ IsExpression(Part(t, 1, i - 1))

\* assignment = identifier , "=" , expression
IsAssignment(t) ==
  \E i \in 2..(Len(t) - 1) :
    /\ t[i] = "="
    /\ IsIdentifier(Part(t, 1, i - 1))
    /\ IsExpression(Part(t, i + 1, Len(t)))

RECURSIVE IsAssignmentList(_)
\* assignment , { "," , assignment }
IsAssignmentList(t) ==
  \/ IsAssignment(t)
  \/ \E i \in 2..(Len(t) - 1) :
       /\ t[i] = ","
       /\ IsAssignment(Part(t, 1, i - 1))
       /\ IsAssignmentList(Part(t, i + 1, Len(t)))

\* declaration = "var" , assignment , { "," , assignment } , ";"
IsDeclaration(t) ==
  /\ Len(t) >= 4
  /\ Part(t, 1, 3) = <<"v", "a", "r">>
  /\ t[Len(t)] = ";"
  /\ IsAssignmentList(Part(t, 4, Len(t) - 1))

\* statement = declaration | assignment | expression, each ended by ";"
IsStatement(t) ==
  \/ IsDeclaration(t)
  \/ /\ Len(t) >= 2
     /\ t[Len(t)] = ";"
     /\ \/ IsAssignment(Part(t, 1, Len(t) - 1))
        \/ IsExpression(Part(t, 1, Len(t) - 1))

RECURSIVE IsProgram(_)
\* program = { statement }
IsProgram(t) ==
  \/ t = <<>>
  \/ \E j \in 1..Len(t) :
       /\ t[j] = ";"
       /\ IsStatement(Part(t, 1, j))
       /\ IsProgram(Part(t, j + 1, Len(t)))

(* A text without its blanks and its comments ("//" to the end of the      *)
(* line), wherever they stand.                                             *)
RECURSIVE DropLine(_)
DropLine(t) ==
  IF t = <<>> \/ Head(t) = "\n" THEN t ELSE DropLine(Tail(t))

RECURSIVE StripComments(_)
StripComments(t) ==
  IF t = <<>> THEN <<>>
  ELSE IF Len(t) >= 2 /\ t[1] = "/" /\ t[2] = "/"
  THEN StripComments(DropLine(t))
  ELSE <<Head(t)>> \o StripComments(Tail(t))

StripBlanks(t) == SelectSeq(StripComments(t), LAMBDA c : ~is_space(c))

Done == pc = "done"

----------------------------------------------------------------------------
(* C1: every text the grammar of section 4.4 derives is accepted:          *)
(* ejs_exec returns 1 on it.                                               *)
C1_GrammarAccepted == Done /\ IsProgram(source_code) => retval = 1

(* C2: every text that violates the grammar makes ejs_exec return 0, at    *)
(* the expectation that failed (the diagnostic shows the input from the    *)
(* cursor the call ends with: nothing was parsed after it), from any       *)
(* depth of the parser's calls, with a non-empty error_msg.  A text with   *)
(* blanks or comments is held against the grammar without them.            *)
C2_ViolationRejected ==
  Done /\ ~IsProgram(StripBlanks(source_code)) =>
    /\ retval = 0
    /\ stack = <<>>
    /\ error_msg # <<>>
    /\ \E snip \in Snippets(source_code, cursor) :
         error_msg = Format(snip, error_msg[Len(error_msg)])

C2_Witness ==
  /\ Done
  /\ ~IsProgram(StripBlanks(source_code))
  /\ retval = 0
  /\ log[1].depth >= 6
  /\ Len(error_msg) > 4

----------------------------------------------------------------------------
(* Every ")" of t closes an earlier "(", and no "(" is open at a ";" or at *)
(* the end.                                                                *)
RECURSIVE ParensMatch(_, _)
ParensMatch(t, open) ==
  IF t = <<>> THEN open = 0
  ELSE IF Head(t) = "(" THEN ParensMatch(Tail(t), open + 1)
  ELSE IF Head(t) = ")" THEN open > 0 /\ ParensMatch(Tail(t), open - 1)
  ELSE IF Head(t) = ";" THEN open = 0 /\ ParensMatch(Tail(t), open)
  ELSE ParensMatch(Tail(t), open)

(* C5: parenthesis balance.  Every statement of Balanced (an atom wrapped  *)
(* up to MaxDepth times in parentheses or call parentheses) is accepted,   *)
(* and whatever is accepted has, outside its comments, every ")" matched   *)
(* by an earlier "(" and every "(" closed before its statement's ";".      *)
C5_ParenBalance ==
  Done =>
    /\ source_code \in Balanced => retval = 1
    /\ retval = 1 => ParensMatch(StripComments(source_code), 0)

C5_Witness ==
  /\ Done
  /\ retval = 1
  /\ \E e \in Nestings(MaxDepth) : source_code = Stmt(e)

(* t starts with an identifier, blanks or none, and "=".                   *)
StartsWithAssignment(t) ==
  \E i \in 2..Len(t) :
    /\ t[i] = "="
    /\ \E k \in 1..(i - 1) :
         /\ IsIdentifier(Part(t, 1, k))
         /\ \A j \in (k + 1)..(i - 1) : is_space(t[j])

C7_CursorBounded ==
  /\ [](cursor <= Len(source_code))
  /\ [][pc \notin {"idle", "done"} => cursor' >= cursor]_vars

(* The number of newlines in t[0 .. cur).                                  *)
NewlinesBefore(t, cur) ==
  Cardinality({i \in 1..Min(cur, Len(t)) : t[i] = "\n"})

(* C8: line_no never decreases, and in every state of an ejs_exec call,    *)
(* the failure state included, it has grown since the call's entry by the  *)
(* number of newlines in source[0 .. cursor).                              *)
C8_LineCount ==
  /\ [](pc # "idle" =>
          line_no - entry_line = NewlinesBefore(source_code, cursor))
  /\ [][line_no' >= line_no]_vars

----------------------------------------------------------------------------
(* One call, over texts that go round the parser's loops.  The run is      *)
(* single-threaded and runs to completion, so a step that can be taken is  *)
(* taken: weak fairness of the parser's steps.                             *)
LoopLen == 4

LoopAlphabet == {"x", "1", "(", ")", ",", "+", ";", "="}

LoopInputs ==
  Strings(LoopAlphabet, LoopLen) \cup Scenarios \cup Balanced \cup Unbalanced

ExecLoops == calls = 0 /\ \E src \in LoopInputs : ejs_exec(src)

NextLoops == ExecLoops \/ Step

FairSpec == Init /\ [][NextLoops]_vars /\ WF_vars(Step)

(* C10: a started ejs_exec call reaches Done, and every parser call that   *)
(* returns (so every pass of the statement, declaration, operator and      *)
(* argument loops, each of which is such a call) has moved cursor on by at *)
(* least one byte since it was made; the other way out is die.             *)
C10_Terminates ==
  /\ (calls = 1) ~> Done
  /\ [][(stack # <<>> /\ stack' = Tail(stack) /\ pc' # "done")
          => cursor' > Head(stack).mark]_vars

C10_Witness ==
  /\ Done
  /\ retval = 1
  /\ source_code \in {S_var_two, S_call_stmt_sub}

----------------------------------------------------------------------------
(* Several ejs_exec calls on one instance.                                 *)

CallLen == 2

CallInputs == Strings({"1", ";", "\n"}, CallLen) \cup Scenarios

ExecAgain == calls < MaxCalls /\ \E src \in CallInputs : ejs_exec(src)

NextCalls == ExecAgain \/ Step

SpecCalls == Init /\ [][NextCalls]_vars

(* C4: whatever calls came before, an ejs_exec call starts at the first    *)
(* byte of its source with line_no equal to 1, so that the same source     *)
(* gives the same result and the same final line count every time.         *)
C4_FreshStart ==
  /\ \A i \in DOMAIN log : log[i].first = 1
  /\ \A i, j \in DOMAIN log :
       log[i].src = log[j].src =>
         log[i].ret = log[j].ret /\ log[i].last = log[j].last

----------------------------------------------------------------------------
(* A text, then the same text with one run of blanks or one comment put    *)
(* between two of its tokens, before the first or after the last.          *)

BaseLen == 3

BlankBases ==
  Strings(GrammarAlphabet, BaseLen) \cup {StripBlanks(t) : t \in Scenarios}

Fillers == {<<" ">>, <<"\t">>, <<"\r">>, <<"\n">>, <<"/", "/", "c", "\n">>}

WordChar(c) == c \in Letters \cup Digits \cup {"_"}

(* Offset p of t lies between two tokens: not inside an identifier, a      *)
(* number or a keyword, and not right after a "/" (which a filler that     *)
(* starts with "/" would turn into a comment).                             *)
Between(t, p) ==
  /\ ~(p >= 1 /\ p < Len(t) /\ WordChar(t[p]) /\ WordChar(t[p + 1]))
  /\ ~(p >= 1 /\ t[p] = "/")

Insert(t, p, f) == SubSeq(t, 1, p) \o f \o SubSeq(t, p + 1, Len(t))

ExecBase == calls = 0 /\ \E src \in BlankBases : ejs_exec(src)

ExecVariant ==
  /\ calls = 1
  /\ pc = "done"
  /\ \E p \in 0..Len(source_code), f \in Fillers :
       /\ Between(source_code, p)
       /\ ejs_exec(Insert(source_code, p, f))

NextBlanks == ExecBase \/ ExecVariant \/ Step

SpecBlanks == Init /\ [][NextBlanks]_vars

(* C3: blanks and comments between tokens do not change the result of      *)
(* ejs_exec, and a program that is one comment and its newline is          *)
(* accepted.                                                               *)
C3_BlanksTransparent ==
  /\ Len(log) = 2 => log[2].ret = log[1].ret
  /\ Done /\ source_code = S_comment_only => retval = 1

----------------------------------------------------------------------------
(* skip_whitespaces_and_comments called twice in a row, from any offset of *)
(* any text.                                                               *)

InitSkip ==
  /\ source_code \in Strings(BlankAlphabet, MaxLen)
  /\ cursor \in 0..Len(source_code)
  /\ line_no = 0
  /\ tok = 0
  /\ tok_len = 0
  /\ error_msg = <<>>
  /\ pc = "skip_first"
  /\ stack = <<>>
  /\ retval = 0
  /\ calls = 0
  /\ entry_line = 0
  /\ log = <<>>

SkipCall(to_pc) ==
  /\ SkipTo(cursor)
  /\ pc' = to_pc
  /\ log' = Append(log, [cursor |-> cursor', line_no |-> line_no'])
  /\ UNCHANGED <<source_code, tok, tok_len, error_msg, stack, retval, calls,
                 entry_line>>

skip_first == pc = "skip_first" /\ SkipCall("skip_second")

skip_second == pc = "skip_second" /\ SkipCall("skipped")

NextSkip == skip_first \/ skip_second

SpecSkip == InitSkip /\ [][NextSkip]_vars

(* C9: skip_whitespaces_and_comments is idempotent: a second call right    *)
(* after the first changes neither cursor nor line_no.                     *)
C9_SkipIdempotent == pc = "skipped" => log[2] = log[1]

=============================================================================
